---- MODULE Spec2Model ----
(***************************************************************************)
(* Scaffold orchestration engine of arbor: the step executor (priority     *)
(* groups, concurrent steps inside a group), the run context's shared      *)
(* DbSuffix slot, and the db.create step with its collision retry loop and *)
(* the worktree-local db_suffix record.                                    *)
(*                                                                         *)
(* Strings are sequences of one-character strings, so that sanitising,     *)
(* concatenating and splitting names are computed and not assumed.         *)
(***************************************************************************)
EXTENDS Integers, Sequences, FiniteSets, TLC

(***************************************************************************)
(* Bounds of the model.                                                    *)
(***************************************************************************)
NumSteps == 3
MaxPriority == 2
MaxDbSteps == 2
NumAdjectives == 2
LongNameLen == 61

(***************************************************************************)
(* Program constants.                                                      *)
(***************************************************************************)
maxDbCreateRetries == 5
DefaultMaxLength == 63

Empty == <<>>

(***************************************************************************)
(* words: SanitizeSiteName, GenerateSuffix, GenerateDatabaseName,          *)
(* ExtractSuffix.                                                          *)
(***************************************************************************)
LowerChars == {"a", "p", "q", "m", "y", "s", "r"}
UpperChars == {"Q", "M"}

ToLower(c) == IF c = "Q" THEN "q" ELSE IF c = "M" THEN "m" ELSE c

IsAlnum(c) == c \in LowerChars

\* lower-case every character and turn every other character into "_"
RECURSIVE MapChars(_)
MapChars(s) ==
    IF s = Empty THEN Empty
    ELSE LET c == ToLower(Head(s))
         IN  <<IF IsAlnum(c) THEN c ELSE "_">> \o MapChars(Tail(s))

\* a run of "_" becomes a single "_"
RECURSIVE Collapse(_)
Collapse(s) ==
    IF Len(s) <= 1 THEN s
    ELSE IF s[1] = "_" /\ s[2] = "_" THEN Collapse(Tail(s))
         ELSE <<s[1]>> \o Collapse(Tail(s))

RECURSIVE TrimLeft(_)
TrimLeft(s) == IF s # Empty /\ Head(s) = "_" THEN TrimLeft(Tail(s)) ELSE s

RECURSIVE TrimRight(_)
TrimRight(s) ==
    IF s # Empty /\ s[Len(s)] = "_" THEN TrimRight(SubSeq(s, 1, Len(s) - 1)) ELSE s

SanitizeSiteName(s) == TrimRight(TrimLeft(Collapse(MapChars(s))))

Adjective(i) == [k \in 1..i |-> "s"]
Adjectives == {Adjective(i) : i \in 1..NumAdjectives}
Nouns == {<<"r">>}

\* every value GenerateSuffix can return: "<adjective>_<noun>"
Suffixes == {a \o <<"_">> \o n : a \in Adjectives, n \in Nouns}

Min(a, b) == IF a < b THEN a ELSE b
Max(a, b) == IF a > b THEN a ELSE b

\* GenerateDatabaseName with the randomly drawn suffix as a parameter
GenerateDatabaseName(prefix, maxLength, suffix) ==
    LET limit == IF maxLength = 0 THEN DefaultMaxLength ELSE maxLength
        clean == SanitizeSiteName(prefix)
        room  == Max(0, limit - Len(suffix) - 1)
        kept  == SubSeq(clean, 1, Min(Len(clean), room))
    IN  kept \o <<"_">> \o suffix

\* positions of "_" in s
Underscores(s) == {i \in 1..Len(s) : s[i] = "_"}

SetMax(S) == CHOOSE x \in S : \A y \in S : y <= x

\* the last two "_"-separated parts of a database name
ExtractSuffix(dbName) ==
    LET us == Underscores(dbName)
    IN  IF Cardinality(us) < 2 THEN Empty
        ELSE LET last == SetMax(us)
                 prev == SetMax(us \ {last})
             IN  SubSeq(dbName, prev + 1, Len(dbName))

(***************************************************************************)
(* State.                                                                  *)
(***************************************************************************)
VARIABLES
    steps,        \* the step list handed to NewStepExecutor: kind and priority
    dryRun,       \* StepOptions.DryRun
    execPc,       \* position of RunScaffold / StepExecutor.Execute
    groups,       \* the priority groups, each a sequence of step indices
    groupIdx,     \* the group Execute is processing
    condEval,     \* per step: the outcome of its Condition, once evaluated
    stepPc,       \* per step: position of its goroutine / of its Run
    runCalled,    \* per step: Run was invoked
    stepErr,      \* per step: the error its Run returned
    results,      \* StepExecutor.results
    execErr,      \* the error Execute returned
    ctxSiteName,  \* ScaffoldContext.SiteName
    ctxDbSuffix,  \* ScaffoldContext.DbSuffix, read and written through its accessors
    persisted,    \* db_suffix of the worktree-local arbor.yaml
    databases,    \* the databases on the server
    sqliteFile,   \* the SQLite database file of the worktree
    dbLocal,      \* per db.create step: the locals of createWithRetry
    dbHist,       \* per db.create step: the client's record of its Run
    initial       \* the context's DbSuffix and the db_suffix record before the run

execVars == <<steps, dryRun, execPc, groups, groupIdx, condEval, stepPc,
              runCalled, stepErr, results, execErr>>

dbVars == <<ctxSiteName, ctxDbSuffix, persisted, databases, sqliteFile,
            dbLocal, dbHist, initial>>

\* the evaluators and step helpers that are exercised on their own
VARIABLES
    condition,    \* the condition map handed to Evaluate / EvaluateCondition
    envFile,      \* the key/value pairs of the worktree's .env file
    osEnv,        \* the names of the environment variables that are set
    verdicts,     \* per evaluator: what it returned for the condition
    stepArgs,     \* BinaryStep.args
    ctxRepoName,  \* ScaffoldContext.RepoName
    ctxBranch,    \* ScaffoldContext.Branch
    binRun,       \* BinaryStep.Run: the command it executed and what it returned
    enabled,      \* per step configuration: its enabled option
    handed,       \* the step list RunScaffold hands to NewStepExecutor
    clientFactory \* the clientFactory of the database steps

condVars == <<condition, envFile, osEnv, verdicts>>

tmplVars == <<stepArgs, ctxRepoName, ctxBranch, binRun>>

cfgVars == <<enabled, handed>>

libVars == <<condVars, tmplVars, cfgVars, clientFactory>>

vars == <<execVars, dbVars, libVars>>

StepIds == 1..NumSteps

NoErr == [kind |-> "nil"]

Kinds == {"mock", "db.create"}

\* the value of a step's --prefix argument
NoPrefix == [given |-> FALSE, value |-> Empty]
Prefix(s) == [given |-> TRUE, value |-> <<"Q", "-">> \o [k \in 1..s |-> "p"]]

\* the step lists of a scaffold run: every db.create step names its own prefix
StepConfig(s, kind, priority) ==
    [kind |-> kind, priority |-> priority,
     prefix |-> IF kind = "db.create" THEN Prefix(s) ELSE NoPrefix]

\* the db.create steps are among the first MaxDbSteps of the list
KindsAt(s) == IF s <= MaxDbSteps THEN Kinds ELSE {"mock"}

StepLists ==
    {[s \in StepIds |-> StepConfig(s, kinds[s], prios[s])] :
        kinds \in {k \in [StepIds -> Kinds] : \A s \in StepIds : k[s] \in KindsAt(s)},
        prios \in [StepIds -> 1..MaxPriority]}

DbSteps(cfg) == {s \in DOMAIN cfg : cfg[s].kind = "db.create"}

(***************************************************************************)
(* StepExecutor: sortByPriority, groupByPriority, Execute.                 *)
(***************************************************************************)
\* insert step s behind every step of the same or a lower priority
RECURSIVE InsertSorted(_, _, _)
InsertSorted(cfg, sorted, s) ==
    IF sorted = Empty THEN <<s>>
    ELSE IF cfg[Head(sorted)].priority <= cfg[s].priority
         THEN <<Head(sorted)>> \o InsertSorted(cfg, Tail(sorted), s)
         ELSE <<s>> \o sorted

RECURSIVE SortPrefix(_, _)
SortPrefix(cfg, n) ==
    IF n = 0 THEN Empty ELSE InsertSorted(cfg, SortPrefix(cfg, n - 1), n)

\* the steps in the order of the configuration
sortByPriorityUnsorted(cfg) == [i \in 1..Len(cfg) |-> i]

\* ascending priority, ties keep their relative order
sortByPriority(cfg) == SortPrefix(cfg, Len(cfg))

\* contiguous runs of one priority value
RECURSIVE groupByPriority(_, _)
groupByPriority(cfg, sorted) ==
    IF sorted = Empty THEN Empty
    ELSE LET rest == groupByPriority(cfg, Tail(sorted))
         IN  IF rest # Empty
                /\ cfg[Head(rest[1])].priority = cfg[Head(sorted)].priority
             THEN <<(<<Head(sorted)>> \o rest[1])>> \o Tail(rest)
             ELSE <<(<<Head(sorted)>>)>> \o rest

SeqToSet(q) == {q[i] : i \in DOMAIN q}

CurrentGroup == groups[groupIdx]

InFlight(s) == stepPc[s] \notin {"idle", "skipped", "done"}

\* inputs of a run
SiteNames == {<<"M", "y">>}
AppNames == {Empty, <<"m">>}
PrefixArgs == {NoPrefix, Prefix(1)}
DbTypes == {"", "mysql", "pgsql", "sqlite", "oracle"}
DbConnections == {"", "mysql", "mariadb", "pgsql", "postgres", "postgresql",
                  "sqlite", "sqlsrv"}

\* the db_suffix record before the run: none, or the suffix of an earlier run
PersistedRecords == {Empty, Adjective(1) \o <<"_">> \o <<"r">>}

\* the locals of a createWithRetry that is not running
NoLocals == [site |-> Empty, attempt |-> 0, dbName |-> Empty, suffix |-> Empty,
             lastErr |-> NoErr, read |-> Empty, remaining |-> {}]

\* the client's record of one Run: its CreateDatabase calls, and how many of
\* them it answered with "already exists"
NoHist == [calls |-> 0, existsAnswers |-> 0, client |-> "none", path |-> "none",
           listCalls |-> Empty, listed |-> 0, dropCalls |-> 0, accepted |-> Empty,
           driver |-> "none"]

\* a condition tree, as the YAML decoder hands it over: a scalar, a map (kids:
\* its entries, one per key) or a list (kids: its items, each under the key "")
Scalar(v) == [tag |-> "scalar", val |-> v, kids |-> Empty]
Entry(key, node) == [key |-> key, node |-> node]
MapOf(entries) == [tag |-> "map", val |-> "", kids |-> entries]
ListOf(nodes) == [tag |-> "list", val |-> "",
                  kids |-> [i \in DOMAIN nodes |-> Entry("", nodes[i])]]

Evaluators == {"ConditionEvaluator", "ScaffoldContext"}

\* no evaluator has been applied
Unasked == [plain |-> "none", negated |-> "none", twice |-> "none"]

\* no evaluation is asked for
CondIdle ==
    /\ condition = MapOf(Empty)
    /\ envFile = {}
    /\ osEnv = {}
    /\ verdicts = [ev \in Evaluators |-> Unasked]

\* BinaryStep.Run has not been called
NotRun == [pc |-> "idle", executed |-> FALSE, command |-> Empty, err |-> NoErr]

\* no binary step is run
TmplIdle ==
    /\ stepArgs = Empty
    /\ ctxRepoName = Empty
    /\ ctxBranch = Empty
    /\ binRun = NotRun

\* every step configuration is enabled
CfgIdle ==
    /\ enabled = [s \in StepIds |-> TRUE]
    /\ handed = Empty

\* the database steps get their clients from the factory a test installs
MockFactory == clientFactory = "mock"

\* the evaluators and step helpers at rest
LibIdle == CondIdle /\ TmplIdle /\ CfgIdle /\ MockFactory

\* stepsFromConfig: one step per configuration record whose name is known,
\* in the order of the configuration
stepsFromConfig(stepConfigs) == [i \in 1..Len(stepConfigs) |-> i]

Init ==
    /\ steps \in StepLists
    /\ dryRun \in BOOLEAN
    /\ execPc = "new"
    /\ groups = Empty
    /\ groupIdx = 0
    /\ condEval = [s \in StepIds |-> "none"]
    /\ stepPc = [s \in StepIds |-> "idle"]
    /\ runCalled = [s \in StepIds |-> FALSE]
    /\ stepErr = [s \in StepIds |-> NoErr]
    /\ results = Empty
    /\ execErr = NoErr
    /\ ctxSiteName = Empty
    /\ ctxDbSuffix = Empty
    /\ persisted \in PersistedRecords
    /\ databases = {}
    /\ sqliteFile = "absent"
    /\ dbLocal = [s \in StepIds |-> NoLocals]
    /\ dbHist = [s \in StepIds |-> NoHist]
    /\ initial = [dbSuffix |-> Empty, record |-> persisted, file |-> sqliteFile,
                  databases |-> databases]
    /\ LibIdle

\* RunScaffold up to the call of Execute: a new context for this run, whose
\* DbSuffix is the zero value
RunScaffold ==
    /\ execPc = "new"
    /\ \E siteName \in SiteNames : ctxSiteName' = siteName
    /\ ctxDbSuffix' = Empty
    /\ handed' = stepsFromConfig(steps)
    /\ execPc' = "execute"
    /\ UNCHANGED <<condVars, tmplVars, enabled, clientFactory, steps, dryRun, groups,
                   groupIdx, condEval, stepPc, runCalled, stepErr, results, execErr,
                   persisted, databases, sqliteFile, dbLocal, dbHist, initial>>

\* Execute, steps 1 and 2: sort the steps and partition them into groups
SortAndGroup ==
    /\ execPc = "execute"
    /\ groups' = groupByPriority(steps, sortByPriority(steps))
    /\ groupIdx' = 1
    /\ execPc' = "evaluate"
    /\ UNCHANGED <<libVars, dbVars, steps, dryRun, condEval, stepPc, runCalled, stepErr,
                   results, execErr>>

\* the values Condition can return for step s
ConditionValues(s) == IF steps[s].kind = "mock" THEN BOOLEAN ELSE {TRUE}

\* a step runs when its condition holds and the run is not a dry run
ShouldRunAlways(cond) == ~dryRun

\* a step runs whenever its condition holds
ShouldRunDespiteDryRun(cond) == cond

ShouldRun(cond) == cond /\ ~dryRun

\* Execute, steps 3a and 3b: evaluate every condition of the group, in step
\* order and before anything is dispatched; record the skipped steps
EvaluateGroup ==
    /\ execPc = "evaluate"
    /\ \E conds \in [SeqToSet(CurrentGroup) -> BOOLEAN] :
          /\ \A s \in SeqToSet(CurrentGroup) : conds[s] \in ConditionValues(s)
          /\ condEval' = [s \in StepIds |->
                            IF s \in SeqToSet(CurrentGroup)
                            THEN (IF conds[s] THEN "true" ELSE "false")
                            ELSE condEval[s]]
          /\ stepPc' = [s \in StepIds |->
                            IF s \in SeqToSet(CurrentGroup)
                            THEN (IF ShouldRun(conds[s]) THEN "ready" ELSE "skipped")
                            ELSE stepPc[s]]
    /\ execPc' = "dispatch"
    /\ UNCHANGED <<libVars, dbVars, steps, dryRun, groups, groupIdx, runCalled, stepErr,
                   results, execErr>>

\* Execute, step 3c: one concurrent task per remaining step of the group
DispatchGroup ==
    /\ execPc = "dispatch"
    /\ stepPc' = [s \in StepIds |->
                    IF stepPc[s] = "ready" THEN "dispatched" ELSE stepPc[s]]
    /\ execPc' = "await"
    /\ UNCHANGED <<libVars, dbVars, steps, dryRun, groups, groupIdx, condEval, runCalled,
                   stepErr, results, execErr>>

\* the outcome of step s without the error of its Run
StepResultWithoutError(s) == [step |-> s, skipped |-> stepPc[s] = "skipped", err |-> NoErr]

\* the outcome of step s
StepResult(s) == [step |-> s, skipped |-> stepPc[s] = "skipped", err |-> stepErr[s]]

\* no step of the group counts as failed
FailedInNone(group) == {}

\* the steps of the group whose Run returned an error
FailedIn(group) == {s \in SeqToSet(group) : stepErr[s] # NoErr}

\* Execute, steps 3d and 3e: wait for every dispatched step, append the
\* group's results in step order, stop at the first failing group
AwaitGroup ==
    /\ execPc = "await"
    /\ \A s \in SeqToSet(CurrentGroup) : ~InFlight(s)
    /\ results' = results \o [i \in 1..Len(CurrentGroup) |-> StepResult(CurrentGroup[i])]
    /\ IF FailedIn(CurrentGroup) # {}
       THEN /\ \E s \in FailedIn(CurrentGroup) :
                  execErr' = [kind |-> "stepFailed", step |-> s, wraps |-> stepErr[s]]
            /\ execPc' = "failed"
            /\ UNCHANGED groupIdx
       ELSE /\ UNCHANGED execErr
            /\ IF groupIdx < Len(groups)
               THEN /\ groupIdx' = groupIdx + 1
                    /\ execPc' = "evaluate"
               ELSE /\ execPc' = "done"
                    /\ UNCHANGED groupIdx
    /\ UNCHANGED <<libVars, dbVars, steps, dryRun, groups, condEval, stepPc, runCalled, stepErr>>

(***************************************************************************)
(* mockStep: Run records the call and returns the configured error.        *)
(***************************************************************************)
MockErr == [kind |-> "mock"]

MockRun(s) ==
    /\ steps[s].kind = "mock"
    /\ stepPc[s] = "dispatched"
    /\ stepPc' = [stepPc EXCEPT ![s] = "running"]
    /\ runCalled' = [runCalled EXCEPT ![s] = TRUE]
    /\ UNCHANGED <<libVars, dbVars, steps, dryRun, execPc, groups, groupIdx, condEval, stepErr,
                   results, execErr>>

MockReturn(s) ==
    /\ steps[s].kind = "mock"
    /\ stepPc[s] = "running"
    /\ \E err \in {NoErr, MockErr} : stepErr' = [stepErr EXCEPT ![s] = err]
    /\ stepPc' = [stepPc EXCEPT ![s] = "done"]
    /\ UNCHANGED <<libVars, dbVars, steps, dryRun, execPc, groups, groupIdx, condEval, runCalled,
                   results, execErr>>

(***************************************************************************)
(* DbCreateStep.                                                           *)
(***************************************************************************)
\* the engine, or "" when none can be determined (the error case)
detectEngine(dbType, conn) ==
    IF dbType # "" THEN
        (IF dbType \in {"mysql", "pgsql", "sqlite"} THEN dbType ELSE "")
    ELSE IF conn \in {"mysql", "mariadb"} THEN "mysql"
    ELSE IF conn \in {"pgsql", "postgres", "postgresql"} THEN "pgsql"
    ELSE IF conn = "sqlite" THEN "sqlite"
    ELSE ""

DefaultSiteName == <<"a", "p", "p">>

getPrefixOrSiteName(prefixArg, siteName, appName) ==
    IF prefixArg.given THEN prefixArg.value
    ELSE IF siteName # Empty THEN siteName
    ELSE IF appName # Empty THEN appName
    ELSE DefaultSiteName

\* ScaffoldContext.GetDbSuffix / SetDbSuffix: each call is atomic
GetDbSuffix == ctxDbSuffix

SetDbSuffix(value) == ctxDbSuffix' = value

\* the client the factory returns for the engine: the mock of the tests, or
\* NewDatabaseClient's MySQLClient or PostgreSQLClient
NewClient(engine) == IF clientFactory = "mock" THEN "mock" ELSE engine

\* MockDatabaseClient.CreateDatabase: "already exists" for a name it holds, and
\* whatever error the test injects
MockCreateAnswers(name) ==
    IF name \in databases THEN {"exists", "error"} ELSE {"ok", "exists", "error"}

\* PostgreSQLClient.CreateDatabase: looks the name up in pg_database first
PostgreSQLCreateAnswers(name) ==
    IF name \in databases THEN {"exists", "error"} ELSE {"ok", "error"}

\* MySQLClient.CreateDatabase: CREATE DATABASE IF NOT EXISTS, which the server
\* accepts for a name it holds
MySQLCreateAnswers(name) == {"ok", "error"}

\* what the client can answer to CreateDatabase(name)
CreateAnswers(driver, name) ==
    CASE driver = "mysql" -> MySQLCreateAnswers(name)
      [] driver = "pgsql" -> PostgreSQLCreateAnswers(name)
      [] OTHER -> MockCreateAnswers(name)

\* the error value the client returned to the call-th CreateDatabase of a Run
DatabaseExistsError(call) == [kind |-> "exists", call |-> call]

IsDatabaseExistsError(err) == err.kind = "exists"

\* Run returns err: the goroutine of step s ends, the locals are gone
Return(s, err) ==
    /\ stepErr' = [stepErr EXCEPT ![s] = err]
    /\ stepPc' = [stepPc EXCEPT ![s] = "done"]
    /\ dbLocal' = [dbLocal EXCEPT ![s] = NoLocals]

execFrame == <<steps, dryRun, execPc, groups, groupIdx, condEval, results, execErr,
               initial>>

IsDb(s) == steps[s].kind = "db.create"

\* the client once the deferred client.Close() has run
ClientLeftOpen == "open"

ClientAfterClose == "closed"

\* what Run returns when Ping fails
PingFailureAsError == [kind |-> "pingFailed"]

PingFailureResult == NoErr

\* the Run of s leaves by the given path, its client in the given state
Exit(s, path, clientState) ==
    dbHist' = [dbHist EXCEPT ![s].path = path, ![s].client = clientState]

\* Run up to the retry loop: detectEngine, the sqlite branch, and the head of
\* createWithRetry (prefix, client factory, Ping)
DbRun(s) ==
    /\ IsDb(s)
    /\ stepPc[s] = "dispatched"
    /\ runCalled' = [runCalled EXCEPT ![s] = TRUE]
    /\ \E dbType \in DbTypes, conn \in DbConnections :
          LET engine == detectEngine(dbType, conn)
          IN  \/ /\ engine = ""
                 /\ Return(s, NoErr)
                 /\ Exit(s, IF dbType # "" THEN "unsupported" ELSE "undetected", "none")
                 /\ UNCHANGED sqliteFile
              \/ /\ engine = "sqlite"
                 /\ Exit(s, "sqlite", "none")
                 /\ IF dryRun
                    THEN Return(s, NoErr) /\ UNCHANGED sqliteFile
                    ELSE \/ Return(s, NoErr) /\ sqliteFile' = "empty"
                         \/ Return(s, [kind |-> "sqliteFailed"]) /\ UNCHANGED sqliteFile
              \/ /\ engine \in {"mysql", "pgsql"}
                 /\ UNCHANGED sqliteFile
                 /\ \/ /\ Return(s, [kind |-> "clientFailed"])
                       /\ Exit(s, "clientFailed", "none")
                    \/ /\ Return(s, PingFailureResult)
                       /\ Exit(s, "pingFailed", ClientAfterClose)
                    \/ \E appName \in AppNames :
                          /\ dbLocal' = [dbLocal EXCEPT ![s] =
                                [NoLocals EXCEPT !.site =
                                    getPrefixOrSiteName(steps[s].prefix, ctxSiteName, appName)]]
                          /\ stepPc' = [stepPc EXCEPT ![s] = "loop"]
                          /\ dbHist' = [dbHist EXCEPT ![s].path = "connected",
                                                      ![s].client = "open",
                                                      ![s].driver = NewClient(engine)]
                          /\ UNCHANGED stepErr
    /\ UNCHANGED <<libVars, execFrame, ctxSiteName, ctxDbSuffix, persisted, databases>>

\* loop head: read the context's suffix; reuse it, or generate a name
DbChooseName(s) ==
    /\ IsDb(s)
    /\ stepPc[s] = "loop"
    /\ LET existingSuffix == GetDbSuffix
       IN  IF existingSuffix # Empty
           THEN /\ dbLocal' = [dbLocal EXCEPT
                      ![s].suffix = existingSuffix,
                      ![s].dbName = SanitizeSiteName(dbLocal[s].site) \o <<"_">> \o existingSuffix]
                /\ stepPc' = [stepPc EXCEPT ![s] = "create"]
           ELSE /\ \E generated \in Suffixes :
                      LET dbName == GenerateDatabaseName(dbLocal[s].site, 0, generated)
                      IN  dbLocal' = [dbLocal EXCEPT
                              ![s].dbName = dbName,
                              ![s].suffix = ExtractSuffix(dbName)]
                /\ stepPc' = [stepPc EXCEPT ![s] = "set"]
    /\ UNCHANGED <<libVars, execFrame, runCalled, stepErr, ctxSiteName, ctxDbSuffix,
                   persisted, databases, sqliteFile, dbHist>>

\* ctx.SetDbSuffix(suffix) of the generated name
DbSetSuffix(s) ==
    /\ IsDb(s)
    /\ stepPc[s] = "set"
    /\ SetDbSuffix(dbLocal[s].suffix)
    /\ stepPc' = [stepPc EXCEPT ![s] = "create"]
    /\ UNCHANGED <<libVars, execFrame, runCalled, stepErr, ctxSiteName, persisted,
                   databases, sqliteFile, dbLocal, dbHist>>

\* client.CreateDatabase(dbName) and the branch on its answer
DbCreateDatabase(s) ==
    /\ IsDb(s)
    /\ stepPc[s] = "create"
    /\ \E answer \in CreateAnswers(dbHist[s].driver, dbLocal[s].dbName) :
          \/ /\ answer = "ok"
             /\ databases' = databases \cup {dbLocal[s].dbName}
             /\ dbHist' = [dbHist EXCEPT ![s].calls = @ + 1,
                                         ![s].accepted = dbLocal[s].dbName]
             /\ stepPc' = [stepPc EXCEPT ![s] = "persist"]
             /\ UNCHANGED <<stepErr, dbLocal>>
          \/ /\ answer = "error"
             /\ dbHist' = [dbHist EXCEPT ![s].calls = @ + 1,
                                         ![s].path = "createFailed",
                                         ![s].client = ClientAfterClose]
             /\ Return(s, [kind |-> "createFailed"])
             /\ UNCHANGED databases
          \/ /\ answer = "exists"
             /\ IsDatabaseExistsError(DatabaseExistsError(dbHist[s].calls + 1))
             /\ dbHist' = [dbHist EXCEPT ![s].calls = @ + 1,
                                         ![s].existsAnswers = @ + 1]
             /\ dbLocal' = [dbLocal EXCEPT
                              ![s].lastErr = DatabaseExistsError(dbHist[s].calls + 1)]
             /\ stepPc' = [stepPc EXCEPT ![s] = "clear"]
             /\ UNCHANGED <<stepErr, databases>>
    /\ UNCHANGED <<libVars, execFrame, runCalled, ctxSiteName, ctxDbSuffix, persisted,
                   sqliteFile>>

\* the value handed to SetDbSuffix after a collision
KeptSuffix == ctxDbSuffix

ClearedSuffix == Empty

\* the loop condition of createWithRetry
MoreAttemptsOneMore(attempt) == attempt <= maxDbCreateRetries

MoreAttempts(attempt) == attempt < maxDbCreateRetries

\* after "already exists": ctx.SetDbSuffix(""), then the next attempt or the
\* error after the last one
DbClearSuffix(s) ==
    /\ IsDb(s)
    /\ stepPc[s] = "clear"
    /\ SetDbSuffix(ClearedSuffix)
    /\ IF MoreAttempts(dbLocal[s].attempt + 1)
       THEN /\ dbLocal' = [dbLocal EXCEPT ![s].attempt = @ + 1,
                                          ![s].dbName = Empty,
                                          ![s].suffix = Empty]
            /\ stepPc' = [stepPc EXCEPT ![s] = "loop"]
            /\ UNCHANGED <<stepErr, dbHist>>
       ELSE /\ Return(s, [kind |-> "exhausted", attempts |-> maxDbCreateRetries,
                          wraps |-> dbLocal[s].lastErr])
            /\ Exit(s, "exhausted", ClientAfterClose)
    /\ UNCHANGED <<libVars, execFrame, runCalled, ctxSiteName, persisted, databases,
                   sqliteFile>>

\* persistDbSuffix, first half: read the context's suffix
DbPersistRead(s) ==
    /\ IsDb(s)
    /\ stepPc[s] = "persist"
    /\ LET suffix == GetDbSuffix
       IN  IF suffix = Empty
           THEN Return(s, NoErr) /\ Exit(s, "created", ClientAfterClose)
           ELSE /\ dbLocal' = [dbLocal EXCEPT ![s].read = suffix]
                /\ stepPc' = [stepPc EXCEPT ![s] = "write"]
                /\ UNCHANGED <<stepErr, dbHist>>
    /\ UNCHANGED <<libVars, execFrame, runCalled, ctxSiteName, ctxDbSuffix, persisted,
                   databases, sqliteFile>>

\* persistDbSuffix, second half: config.WriteWorktreeConfig, on a writable
\* worktree directory; createWithRetry then returns nil
DbPersistWrite(s) ==
    /\ IsDb(s)
    /\ stepPc[s] = "write"
    /\ persisted' = dbLocal[s].read
    /\ Return(s, NoErr)
    /\ Exit(s, "created", ClientAfterClose)
    /\ UNCHANGED <<libVars, execFrame, runCalled, ctxSiteName, ctxDbSuffix, databases,
                   sqliteFile>>

Next ==
    \/ RunScaffold
    \/ SortAndGroup
    \/ EvaluateGroup
    \/ DispatchGroup
    \/ AwaitGroup
    \/ \E s \in StepIds : MockRun(s)
    \/ \E s \in StepIds : MockReturn(s)
    \/ \E s \in StepIds : DbRun(s)
    \/ \E s \in StepIds : DbChooseName(s)
    \/ \E s \in StepIds : DbSetSuffix(s)
    \/ \E s \in StepIds : DbCreateDatabase(s)
    \/ \E s \in StepIds : DbClearSuffix(s)
    \/ \E s \in StepIds : DbPersistRead(s)
    \/ \E s \in StepIds : DbPersistWrite(s)

Spec == Init /\ [][Next]_vars

(***************************************************************************)
(* A db.create step run on its own, as a caller that builds the context    *)
(* itself does: the context may already hold a suffix.                     *)
(***************************************************************************)
\* a site name that does not fit the default maximum with a suffix behind it
LongSiteName == [k \in 1..LongNameLen |-> "a"]

\* the sqlite database file before the Run: none, or one that holds data
SqliteFiles == {"absent", "data"}

RunSiteNames == {Empty, <<"M", "y">>, LongSiteName}

InitRun ==
    /\ \E prefixArg \in PrefixArgs :
          steps = [s \in StepIds |->
                     IF s = 1
                     THEN [kind |-> "db.create", priority |-> 1, prefix |-> prefixArg]
                     ELSE StepConfig(s, "mock", 1)]
    /\ dryRun \in BOOLEAN
    /\ execPc = "direct"
    /\ groups = Empty
    /\ groupIdx = 0
    /\ condEval = [s \in StepIds |-> "none"]
    /\ stepPc = [s \in StepIds |-> IF s = 1 THEN "dispatched" ELSE "idle"]
    /\ runCalled = [s \in StepIds |-> FALSE]
    /\ stepErr = [s \in StepIds |-> NoErr]
    /\ results = Empty
    /\ execErr = NoErr
    /\ ctxSiteName \in RunSiteNames
    /\ ctxDbSuffix \in {Empty} \cup Suffixes
    /\ persisted \in PersistedRecords
    /\ databases = {}
    /\ sqliteFile \in SqliteFiles
    /\ dbLocal = [s \in StepIds |-> NoLocals]
    /\ dbHist = [s \in StepIds |-> NoHist]
    /\ initial = [dbSuffix |-> ctxDbSuffix, record |-> persisted, file |-> sqliteFile,
                  databases |-> databases]
    /\ LibIdle

NextRun ==
    \/ \E s \in StepIds : DbRun(s)
    \/ \E s \in StepIds : DbChooseName(s)
    \/ \E s \in StepIds : DbSetSuffix(s)
    \/ \E s \in StepIds : DbCreateDatabase(s)
    \/ \E s \in StepIds : DbClearSuffix(s)
    \/ \E s \in StepIds : DbPersistRead(s)
    \/ \E s \in StepIds : DbPersistWrite(s)

SpecRun == InitRun /\ [][NextRun]_vars

(***************************************************************************)
(* One db.create step with the default client factory, against a server    *)
(* that may hold databases of the names the step can choose.               *)
(***************************************************************************)
ServerSiteName == <<"M", "y">>

\* the names the step can choose for the site
ChoosableNames == {GenerateDatabaseName(ServerSiteName, 0, x) : x \in Suffixes}

InitServer ==
    /\ steps = [s \in StepIds |->
                  IF s = 1
                  THEN [kind |-> "db.create", priority |-> 1, prefix |-> NoPrefix]
                  ELSE StepConfig(s, "mock", 1)]
    /\ dryRun \in BOOLEAN
    /\ execPc = "direct"
    /\ groups = Empty
    /\ groupIdx = 0
    /\ condEval = [s \in StepIds |-> "none"]
    /\ stepPc = [s \in StepIds |-> IF s = 1 THEN "dispatched" ELSE "idle"]
    /\ runCalled = [s \in StepIds |-> FALSE]
    /\ stepErr = [s \in StepIds |-> NoErr]
    /\ results = Empty
    /\ execErr = NoErr
    /\ ctxSiteName = ServerSiteName
    /\ ctxDbSuffix \in {Empty} \cup Suffixes
    /\ persisted \in PersistedRecords
    /\ databases \in SUBSET ChoosableNames
    /\ sqliteFile = "absent"
    /\ dbLocal = [s \in StepIds |-> NoLocals]
    /\ dbHist = [s \in StepIds |-> NoHist]
    /\ initial = [dbSuffix |-> ctxDbSuffix, record |-> persisted, file |-> sqliteFile,
                  databases |-> databases]
    /\ CondIdle
    /\ TmplIdle
    /\ CfgIdle
    /\ clientFactory = "default"

SpecServer == InitServer /\ [][NextRun]_vars

(***************************************************************************)
(* DbDestroyStep, run on its own by a cleanup pass.                        *)
(***************************************************************************)
IsDestroy(s) == steps[s].kind = "db.destroy"

\* names a server can hold before the cleanup: databases of earlier runs under
\* each suffix, and one that carries no suffix
SuffixedNames == {<<"q", "_">> \o x : x \in Suffixes}

ServerNames == SuffixedNames \cup {<<"m", "y">>}

\* SQL LIKE: % matches any run of characters, _ any one character
RECURSIVE LikeMatch(_, _)
LikeMatch(pattern, name) ==
    IF pattern = Empty THEN name = Empty
    ELSE IF Head(pattern) = "%"
         THEN \/ LikeMatch(Tail(pattern), name)
              \/ name # Empty /\ LikeMatch(pattern, Tail(name))
    ELSE IF name = Empty THEN FALSE
    ELSE /\ Head(pattern) = "_" \/ Head(pattern) = Head(name)
         /\ LikeMatch(Tail(pattern), Tail(name))

\* the pattern destroyDatabases hands to ListDatabases
ListPattern(suffix) == <<"%", "_">> \o suffix

\* what the server answers to ListDatabases(pattern)
ListDatabases(pattern) == {n \in databases : LikeMatch(pattern, n)}

\* the record's suffix wins over the context's
ResolveSuffixRecordFirst(fromContext, fromRecord) ==
    IF fromRecord # Empty THEN fromRecord ELSE fromContext

\* the suffix of a cleanup: the context's, else the db_suffix record's
ResolveSuffix(fromContext, fromRecord) ==
    IF fromContext # Empty THEN fromContext ELSE fromRecord

\* Run up to the call of destroyDatabases
DestroyRun(s) ==
    /\ IsDestroy(s)
    /\ stepPc[s] = "dispatched"
    /\ runCalled' = [runCalled EXCEPT ![s] = TRUE]
    /\ \E readOk \in BOOLEAN, dbType \in DbTypes, conn \in DbConnections :
          LET fromContext == GetDbSuffix
              suffix == ResolveSuffix(fromContext, persisted)
              engine == detectEngine(dbType, conn)
          IN  IF fromContext = Empty /\ ~readOk
              THEN /\ Return(s, NoErr)
                   /\ Exit(s, "readFailed", "none")
                   /\ UNCHANGED ctxDbSuffix
              ELSE IF suffix = Empty
              THEN /\ Return(s, NoErr)
                   /\ Exit(s, "noSuffix", "none")
                   /\ UNCHANGED ctxDbSuffix
              ELSE /\ SetDbSuffix(suffix)
                   /\ IF engine = ""
                      THEN /\ Return(s, NoErr)
                           /\ Exit(s, IF dbType # "" THEN "unsupported" ELSE "undetected",
                                   "none")
                      ELSE IF engine = "sqlite"
                      THEN Return(s, NoErr) /\ Exit(s, "sqlite", "none")
                      ELSE /\ dbLocal' = [dbLocal EXCEPT ![s] =
                                            [NoLocals EXCEPT !.suffix = suffix]]
                           /\ stepPc' = [stepPc EXCEPT ![s] = "connect"]
                           /\ UNCHANGED <<stepErr, dbHist>>
    /\ UNCHANGED <<libVars, execFrame, ctxSiteName, persisted, databases, sqliteFile>>

\* destroyDatabases up to its loop: client factory, Ping, ListDatabases
DestroyConnect(s) ==
    /\ IsDestroy(s)
    /\ stepPc[s] = "connect"
    /\ LET pattern == ListPattern(dbLocal[s].suffix)
           found   == ListDatabases(pattern)
       IN  \/ /\ Return(s, NoErr)
              /\ Exit(s, "clientFailed", "none")
           \/ /\ Return(s, NoErr)
              /\ Exit(s, "pingFailed", ClientAfterClose)
           \/ /\ Return(s, NoErr)
              /\ dbHist' = [dbHist EXCEPT ![s].path = "listFailed",
                                          ![s].client = ClientAfterClose,
                                          ![s].listCalls = Append(@, pattern)]
           \/ /\ found = {}
              /\ Return(s, NoErr)
              /\ dbHist' = [dbHist EXCEPT ![s].path = "nothingListed",
                                          ![s].client = ClientAfterClose,
                                          ![s].listCalls = Append(@, pattern)]
           \/ /\ found # {}
              /\ dbLocal' = [dbLocal EXCEPT ![s].remaining = found]
              /\ stepPc' = [stepPc EXCEPT ![s] = "drop"]
              /\ dbHist' = [dbHist EXCEPT ![s].client = "open",
                                          ![s].listCalls = Append(@, pattern),
                                          ![s].listed = Cardinality(found)]
              /\ UNCHANGED stepErr
    /\ UNCHANGED <<libVars, execFrame, runCalled, ctxSiteName, ctxDbSuffix, persisted,
                   databases, sqliteFile>>

\* a dry run never calls DropDatabase
SkipsDropNever(dry) == FALSE

\* the dry-run test at the head of the loop body
SkipsDrop(dry) == dry

\* a failed drop ends the loop
AfterDropFailureStop(rest) == {}

\* the listed databases still to visit after a failed drop
AfterDropFailure(rest) == rest

\* one turn of the loop of destroyDatabases, and its return after the last
DestroyDrop(s) ==
    /\ IsDestroy(s)
    /\ stepPc[s] = "drop"
    /\ \E dbName \in dbLocal[s].remaining, dropped \in BOOLEAN :
          LET called == ~SkipsDrop(dryRun)
              rest   == dbLocal[s].remaining \ {dbName}
              left   == IF called /\ ~dropped THEN AfterDropFailure(rest) ELSE rest
          IN  /\ databases' = IF called /\ dropped
                               THEN databases \ {dbName} ELSE databases
              /\ IF left = {}
                 THEN /\ Return(s, NoErr)
                      /\ dbHist' = [dbHist EXCEPT
                            ![s].dropCalls = IF called THEN @ + 1 ELSE @,
                            ![s].path = "dropped",
                            ![s].client = ClientAfterClose]
                 ELSE /\ dbLocal' = [dbLocal EXCEPT ![s].remaining = left]
                      /\ dbHist' = [dbHist EXCEPT
                            ![s].dropCalls = IF called THEN @ + 1 ELSE @]
                      /\ UNCHANGED <<stepPc, stepErr>>
    /\ UNCHANGED <<libVars, execFrame, runCalled, ctxSiteName, ctxDbSuffix, persisted,
                   sqliteFile>>

InitDestroy ==
    /\ steps = [s \in StepIds |->
                  IF s = 1
                  THEN [kind |-> "db.destroy", priority |-> 0, prefix |-> NoPrefix]
                  ELSE StepConfig(s, "mock", 1)]
    /\ dryRun \in BOOLEAN
    /\ execPc = "direct"
    /\ groups = Empty
    /\ groupIdx = 0
    /\ condEval = [s \in StepIds |-> "none"]
    /\ stepPc = [s \in StepIds |-> IF s = 1 THEN "dispatched" ELSE "idle"]
    /\ runCalled = [s \in StepIds |-> FALSE]
    /\ stepErr = [s \in StepIds |-> NoErr]
    /\ results = Empty
    /\ execErr = NoErr
    /\ ctxSiteName = Empty
    /\ ctxDbSuffix \in {Empty} \cup Suffixes
    /\ persisted \in PersistedRecords
    /\ databases \in SUBSET ServerNames
    /\ sqliteFile = "absent"
    /\ dbLocal = [s \in StepIds |-> NoLocals]
    /\ dbHist = [s \in StepIds |-> NoHist]
    /\ initial = [dbSuffix |-> ctxDbSuffix, record |-> persisted, file |-> sqliteFile,
                  databases |-> databases]
    /\ LibIdle

NextDestroy ==
    \/ \E s \in StepIds : DestroyRun(s)
    \/ \E s \in StepIds : DestroyConnect(s)
    \/ \E s \in StepIds : DestroyDrop(s)

SpecDestroy == InitDestroy /\ [][NextDestroy]_vars

(***************************************************************************)
(* Either database step run on its own.                                    *)
(***************************************************************************)
InitClients == InitRun \/ InitDestroy

NextClients == NextRun \/ NextDestroy

SpecClients == InitClients /\ [][NextClients]_vars

(***************************************************************************)
(* A scaffold run of one environment followed by its cleanup, on a server   *)
(* that another environment uses as well.                                  *)
(***************************************************************************)
\* the step list of the cleanup: its db.destroy step first
CleanupSteps ==
    [s \in StepIds |->
        IF s = 1
        THEN [kind |-> "db.destroy", priority |-> 0, prefix |-> NoPrefix]
        ELSE StepConfig(s, "mock", 1)]

\* RunCleanup after a scaffold run that returned nil: a new context, the
\* cleanup steps, and the Run of the db.destroy step
RunCleanup ==
    /\ execPc = "done"
    /\ execPc' = "cleanup"
    /\ ctxDbSuffix' = Empty
    /\ steps' = CleanupSteps
    /\ stepPc' = [s \in StepIds |-> IF s = 1 THEN "dispatched" ELSE "idle"]
    /\ runCalled' = [s \in StepIds |-> FALSE]
    /\ stepErr' = [s \in StepIds |-> NoErr]
    /\ dbLocal' = [s \in StepIds |-> NoLocals]
    /\ dbHist' = [s \in StepIds |-> NoHist]
    /\ initial' = [dbSuffix |-> Empty, record |-> persisted, file |-> sqliteFile,
                   databases |-> databases]
    /\ UNCHANGED <<libVars, dryRun, groups, groupIdx, condEval, results, execErr,
                   ctxSiteName, persisted, databases, sqliteFile>>

\* the prefix of the other environment, and the databases its scaffold run
\* can have created
OtherPrefix == <<"y", "a">>

OtherNames == {GenerateDatabaseName(OtherPrefix, 0, x) : x \in Suffixes}

\* every db.create step of the configuration names its own prefix; the run is
\* no dry run and the worktree has no db_suffix record yet
InitLifecycle ==
    /\ steps \in {cfg \in StepLists : DbSteps(cfg) = 1..MaxDbSteps}
    /\ dryRun = FALSE
    /\ execPc = "new"
    /\ groups = Empty
    /\ groupIdx = 0
    /\ condEval = [s \in StepIds |-> "none"]
    /\ stepPc = [s \in StepIds |-> "idle"]
    /\ runCalled = [s \in StepIds |-> FALSE]
    /\ stepErr = [s \in StepIds |-> NoErr]
    /\ results = Empty
    /\ execErr = NoErr
    /\ ctxSiteName = Empty
    /\ ctxDbSuffix = Empty
    /\ persisted = Empty
    /\ databases \in SUBSET OtherNames
    /\ sqliteFile = "absent"
    /\ dbLocal = [s \in StepIds |-> NoLocals]
    /\ dbHist = [s \in StepIds |-> NoHist]
    /\ initial = [dbSuffix |-> Empty, record |-> persisted, file |-> sqliteFile,
                  databases |-> databases]
    /\ LibIdle

NextLifecycle ==
    \/ Next
    \/ RunCleanup
    \/ NextDestroy

SpecLifecycle == InitLifecycle /\ [][NextLifecycle]_vars

(***************************************************************************)
(* The condition evaluators: ConditionEvaluator.Evaluate and               *)
(* ScaffoldContext.EvaluateCondition.  An evaluation yields "true" or      *)
(* "false", or ends in a run-time panic; the operators give the set of     *)
(* outcomes an evaluation can have, because a Go map is ranged over in an  *)
(* order that differs from run to run.                                     *)
(***************************************************************************)
HasKey(m, key) == \E i \in DOMAIN m.kids : m.kids[i].key = key

Lookup(m, key) == m.kids[CHOOSE i \in DOMAIN m.kids : m.kids[i].key = key].node

\* v.(string), or v[field].(string) of a map argument; "" when there is none
ArgString(value, field) ==
    IF value.tag = "scalar" THEN value.val
    ELSE IF value.tag = "map" /\ HasKey(value, field)
            /\ Lookup(value, field).tag = "scalar"
         THEN Lookup(value, field).val
         ELSE ""

\* utils.ReadEnvFile: the pairs of the named file, none when it is not there
ReadEnvFile(file) == IF file = ".env" THEN envFile ELSE {}

envExists(value) ==
    LET envName == ArgString(value, "env")
    IN  envName # "" /\ envName \in osEnv

envNotExists(value) == ~envExists(value)

envFileContains(value) ==
    LET key == ArgString(value, "key")
        file == IF value.tag = "scalar" THEN ".env"
                ELSE IF value.tag = "map" /\ HasKey(value, "file")
                        /\ Lookup(value, "file").tag = "scalar"
                     THEN Lookup(value, "file").val
                     ELSE ""
    IN  IF file = "" \/ key = "" THEN FALSE
        ELSE \E pair \in ReadEnvFile(file) : pair[1] = key /\ pair[2] # ""

envFileMissing(value) == ~envFileContains(value)

envFileNotExists(value) == ~envFileContains(value)

Returns(b) == IF b THEN {"true"} ELSE {"false"}

\* !result of every outcome that is a result
Negated(outcomes) ==
    {IF o = "true" THEN "false" ELSE IF o = "false" THEN "true" ELSE o :
        o \in outcomes}

RECURSIVE evaluateCondition(_, _)
RECURSIVE evaluateMapCondition(_, _)
RECURSIVE evaluateArrayCondition(_, _)
RECURSIVE evaluateSingle(_, _, _)

evaluateCondition(ev, cond) ==
    CASE cond.tag = "map" -> evaluateMapCondition(ev, cond)
      [] cond.tag = "list" -> evaluateArrayCondition(ev, cond.kids)
      [] OTHER -> {"true"}

\* the loop returns at the first entry that is not true, and the entries come
\* in any order: every entry's failure is a possible outcome
evaluateMapCondition(ev, conditions) ==
    LET each == {evaluateSingle(ev, conditions.kids[i].key, conditions.kids[i].node) :
                    i \in DOMAIN conditions.kids}
    IN  {o \in {"false", "panic"} : \E outcomes \in each : o \in outcomes}
        \cup (IF \A outcomes \in each : "true" \in outcomes THEN {"true"} ELSE {})

\* item.(map[string]interface{}) panics for an item that is no map
evaluateArrayCondition(ev, conditions) ==
    IF conditions = Empty THEN {"true"}
    ELSE LET item == Head(conditions).node
             first == IF item.tag = "map" THEN evaluateCondition(ev, item)
                      ELSE {"panic"}
         IN  (first \ {"true"})
             \cup (IF "true" \in first
                   THEN evaluateArrayCondition(ev, Tail(conditions))
                   ELSE {})

\* the predicates on files, commands and the platform are not drawn as keys
evaluateSingle(ev, key, value) ==
    CASE key = "env_exists" -> Returns(envExists(value))
      [] key = "env_not_exists" -> Returns(envNotExists(value))
      [] key = "env_file_contains" -> Returns(envFileContains(value))
      [] key = "env_file_missing" /\ ev = "ScaffoldContext" ->
            Returns(envFileMissing(value))
      [] key = "env_file_not_exists" /\ ev = "ConditionEvaluator" ->
            Returns(envFileNotExists(value))
      [] key = "not" -> Negated(evaluateCondition(ev, value))
      [] OTHER -> {"true"}

Evaluate(ev, conditions) ==
    IF conditions.kids = Empty THEN {"true"}
    ELSE IF HasKey(conditions, "not")
         THEN Negated(evaluateCondition(ev, Lookup(conditions, "not")))
         ELSE evaluateCondition(ev, conditions)

\* {not: c}
Not(c) == MapOf(<<Entry("not", c)>>)

\* one evaluator is handed the condition c, then {not: c} and {not: {not: c}}
Apply(ev) ==
    /\ verdicts[ev] = Unasked
    /\ \E plain \in Evaluate(ev, condition),
          negated \in Evaluate(ev, Not(condition)),
          twice \in Evaluate(ev, Not(Not(condition))) :
          verdicts' = [verdicts EXCEPT ![ev] =
                          [plain |-> plain, negated |-> negated, twice |-> twice]]
    /\ UNCHANGED <<execVars, dbVars, tmplVars, cfgVars, clientFactory, condition,
                   envFile, osEnv>>

EvaluatorEvaluate == Apply("ConditionEvaluator")

ContextEvaluateCondition == Apply("ScaffoldContext")

\* the arguments of a predicate: a bare name, or a map of named fields
EnvKey == "K"

CondArgs ==
    {Scalar(EnvKey), Scalar(""),
     MapOf(<<Entry("key", Scalar(EnvKey))>>),
     MapOf(<<Entry("env", Scalar(EnvKey)), Entry("file", Scalar(".env")),
             Entry("key", Scalar(EnvKey))>>)}

Predicates == <<"env_exists", "env_not_exists", "env_file_contains",
                "env_file_missing">>

Leaf(p, a) == MapOf(<<Entry(p, a)>>)

Leaves == {Leaf(Predicates[i], a) : i \in DOMAIN Predicates, a \in CondArgs}

TwoLeaves ==
    {MapOf(<<Entry(Predicates[ij[1]], Scalar(EnvKey)),
             Entry(Predicates[ij[2]], Scalar(EnvKey))>>) :
        ij \in {p \in (DOMAIN Predicates) \X (DOMAIN Predicates) : p[1] < p[2]}}

\* what stands under "not" or in a list
Items == Leaves \cup {MapOf(Empty), Scalar(EnvKey), ListOf(Empty)}

ShortItems == {Leaf("env_exists", Scalar(EnvKey)),
               Leaf("env_file_contains", Scalar(EnvKey)), Scalar(EnvKey)}

Lists == {ListOf(<<x>>) : x \in Items}
         \cup {ListOf(<<x, y>>) : x \in ShortItems, y \in ShortItems}

NotMaps == {Not(v) : v \in Items \cup Lists}

NotWithSibling ==
    {MapOf(<<Entry("not", v), Entry(Predicates[i], Scalar(EnvKey))>>) :
        v \in ShortItems \cup {ListOf(<<Scalar(EnvKey)>>)}, i \in DOMAIN Predicates}

\* the condition maps of a step configuration
ConditionMaps ==
    {MapOf(Empty)} \cup Leaves \cup TwoLeaves \cup NotMaps \cup NotWithSibling

\* no scaffold run and no database step is under way
RunIdleAt(siteName) ==
    /\ steps = [s \in StepIds |-> StepConfig(s, "mock", 1)]
    /\ dryRun = FALSE
    /\ execPc = "none"
    /\ groups = Empty
    /\ groupIdx = 0
    /\ condEval = [s \in StepIds |-> "none"]
    /\ stepPc = [s \in StepIds |-> "idle"]
    /\ runCalled = [s \in StepIds |-> FALSE]
    /\ stepErr = [s \in StepIds |-> NoErr]
    /\ results = Empty
    /\ execErr = NoErr
    /\ ctxSiteName = siteName
    /\ ctxDbSuffix = Empty
    /\ persisted = Empty
    /\ databases = {}
    /\ sqliteFile = "absent"
    /\ dbLocal = [s \in StepIds |-> NoLocals]
    /\ dbHist = [s \in StepIds |-> NoHist]
    /\ initial = [dbSuffix |-> Empty, record |-> Empty, file |-> "absent",
                  databases |-> {}]

\* the .env file is without the key, holds it with no value, or with a value
InitCond ==
    /\ RunIdleAt(Empty)
    /\ TmplIdle
    /\ CfgIdle
    /\ MockFactory
    /\ condition \in ConditionMaps
    /\ envFile \in {{}, {<<EnvKey, "">>}, {<<EnvKey, "v">>}}
    /\ osEnv \in {{}, {EnvKey}}
    /\ verdicts = [ev \in Evaluators |-> Unasked]

NextCond ==
    \/ EvaluatorEvaluate
    \/ ContextEvaluateCondition

SpecCond == InitCond /\ [][NextCond]_vars

(***************************************************************************)
(* BinaryStep.Run and its template substitution.                           *)
(***************************************************************************)
\* strings.ReplaceAll: the occurrences of old, left to right, none overlapping
RECURSIVE ReplaceAll(_, _, _)
ReplaceAll(str, old, new) ==
    IF Len(str) < Len(old) THEN str
    ELSE IF SubSeq(str, 1, Len(old)) = old
         THEN new \o ReplaceAll(SubSeq(str, Len(old) + 1, Len(str)), old, new)
         ELSE <<Head(str)>> \o ReplaceAll(Tail(str), old, new)

\* "{{ .<identifier> }}"
Placeholder(identifier) == <<"{", "{", " ", ".">> \o identifier \o <<" ", "}", "}">>

RepoNameId == <<"R", "e", "p", "o", "N", "a", "m", "e">>
SiteNameId == <<"S", "i", "t", "e", "N", "a", "m", "e">>
BranchId == <<"B", "r", "a", "n", "c", "h">>

\* an identifier that is no context field and no stored variable
UnknownId == <<"F", "o", "o">>

replaceTemplate(args) ==
    [i \in DOMAIN args |->
        ReplaceAll(ReplaceAll(ReplaceAll(args[i],
                       Placeholder(RepoNameId), ctxRepoName),
                       Placeholder(SiteNameId), ctxSiteName),
                       Placeholder(BranchId), ctxBranch)]

\* opts.Args
OptArgs == {Empty, <<(<<"-", "q">>)>>}

\* Run: substitute, execute the command, wrap the command's error
BinaryRun ==
    /\ binRun.pc = "idle"
    /\ \E extra \in OptArgs, err \in {NoErr, [kind |-> "commandFailed"]} :
          binRun' = [pc |-> "done", executed |-> TRUE,
                     command |-> replaceTemplate(stepArgs \o extra), err |-> err]
    /\ UNCHANGED <<execVars, dbVars, condVars, cfgVars, clientFactory, stepArgs,
                   ctxRepoName, ctxBranch>>

\* arguments of a step configuration: plain, with known placeholders, with a
\* placeholder whose identifier is unknown
KnownArgs ==
    {<<"i">>,
     Placeholder(SiteNameId),
     <<"a">> \o Placeholder(BranchId) \o <<"b">>,
     Placeholder(RepoNameId) \o <<"-">> \o Placeholder(SiteNameId)}

UnknownArgs ==
    {Placeholder(UnknownId),
     <<"a">> \o Placeholder(UnknownId) \o Placeholder(BranchId)}

ArgLists ==
    {<<a>> : a \in KnownArgs \cup UnknownArgs}
    \cup {<<a, b>> : a \in KnownArgs \cup UnknownArgs, b \in KnownArgs \cup UnknownArgs}

InitBinary ==
    /\ \E siteName \in {<<"s">>, <<"m", "y">>} : RunIdleAt(siteName)
    /\ CondIdle
    /\ CfgIdle
    /\ MockFactory
    /\ stepArgs \in ArgLists
    /\ ctxRepoName \in {<<"r">>, <<"r", "2">>}
    /\ ctxBranch \in {<<"b">>, <<"f", "/", "b">>}
    /\ binRun = NotRun

SpecBinary == InitBinary /\ [][BinaryRun]_vars

(***************************************************************************)
(* A scaffold run over step configurations that carry the enabled option.  *)
(***************************************************************************)
\* the configured steps are mock steps; each is enabled or disabled
InitEnabled ==
    /\ steps \in {cfg \in StepLists : DbSteps(cfg) = {}}
    /\ dryRun \in BOOLEAN
    /\ execPc = "new"
    /\ groups = Empty
    /\ groupIdx = 0
    /\ condEval = [s \in StepIds |-> "none"]
    /\ stepPc = [s \in StepIds |-> "idle"]
    /\ runCalled = [s \in StepIds |-> FALSE]
    /\ stepErr = [s \in StepIds |-> NoErr]
    /\ results = Empty
    /\ execErr = NoErr
    /\ ctxSiteName = Empty
    /\ ctxDbSuffix = Empty
    /\ persisted = Empty
    /\ databases = {}
    /\ sqliteFile = "absent"
    /\ dbLocal = [s \in StepIds |-> NoLocals]
    /\ dbHist = [s \in StepIds |-> NoHist]
    /\ initial = [dbSuffix |-> Empty, record |-> persisted, file |-> sqliteFile,
                  databases |-> databases]
    /\ CondIdle
    /\ TmplIdle
    /\ enabled \in [StepIds -> BOOLEAN]
    /\ handed = Empty
    /\ MockFactory

NextEnabled ==
    \/ RunScaffold
    \/ SortAndGroup
    \/ EvaluateGroup
    \/ DispatchGroup
    \/ AwaitGroup
    \/ \E s \in StepIds : MockRun(s)
    \/ \E s \in StepIds : MockReturn(s)

SpecEnabled == InitEnabled /\ [][NextEnabled]_vars

(***************************************************************************)
(* Properties.                                                             *)
(***************************************************************************)
DbStepIds == {s \in StepIds : IsDb(s)}

Finished == execPc \in {"done", "failed"}

Returned(s) == stepPc[s] = "done"

\* the Run of s returned nil after the client accepted one of its names
Created(s) == Returned(s) /\ stepErr[s] = NoErr /\ dbHist[s].calls > dbHist[s].existsAnswers

SuffixesOnServer == {ExtractSuffix(n) : n \in databases}

\* C1: when every db.create step of a run returned success, all the databases
\* created in the run end in one suffix and the db_suffix record is that suffix
C1_SharedSuffix ==
    ( /\ Finished
      /\ \A s \in DbStepIds : runCalled[s] => Returned(s) /\ stepErr[s] = NoErr
      /\ databases # {} )
    => /\ Cardinality(SuffixesOnServer) = 1
       /\ persisted \in SuffixesOnServer

\* C2: once a step's Run has returned an error, no step of a later priority
\* group is run, and when Execute has returned it returned an error and every
\* step of the failing step's group whose condition passed has run to its end
C2_FailingGroup ==
    \A s \in StepIds :
        stepErr[s] # NoErr =>
            /\ \A t \in StepIds :
                  steps[t].priority > steps[s].priority => ~runCalled[t]
            /\ Finished =>
                  /\ execPc = "failed"
                  /\ execErr # NoErr
                  /\ \A t \in StepIds :
                        (steps[t].priority = steps[s].priority /\ condEval[t] = "true")
                            => runCalled[t] /\ Returned(t)

C2_Witness ==
    /\ execPc = "failed"
    /\ \E s, t, u \in StepIds :
          /\ stepErr[s] # NoErr
          /\ t # s /\ steps[t].priority = steps[s].priority
          /\ runCalled[t] /\ Returned(t) /\ stepErr[t] = NoErr
          /\ steps[u].priority > steps[s].priority
          /\ ~runCalled[u]

\* C3: a step starts its Run, and its condition is evaluated, only when every
\* step of every lower priority has been skipped or has finished
C3_GroupsInOrder ==
    \A s, t \in StepIds :
        ( /\ steps[t].priority < steps[s].priority
          /\ (runCalled[s] \/ condEval[s] # "none" \/ stepPc[s] # "idle") )
        => stepPc[t] \in {"skipped", "done"}

C3_Witness ==
    \E s, t \in StepIds :
        /\ steps[t].priority < steps[s].priority
        /\ runCalled[t] /\ Returned(t)
        /\ runCalled[s] /\ InFlight(s)

\* an attempt of s is in flight: it holds the name it creates, or has created
AttemptInFlight(s) == stepPc[s] \in {"create", "persist", "write"}

\* C4: of the db.create steps running concurrently in one group, at most one
\* generates a suffix to assign, and any two attempts in flight use one suffix
C4_SingleFirstWriter ==
    \A s, t \in DbStepIds :
        (s # t /\ steps[s].priority = steps[t].priority) =>
            /\ ~(stepPc[s] = "set" /\ stepPc[t] = "set")
            /\ (AttemptInFlight(s) /\ AttemptInFlight(t))
                  => dbLocal[s].suffix = dbLocal[t].suffix

\* C5: a Run makes at most 5 CreateDatabase calls, and a Run all of whose
\* attempts were answered "already exists" returns the error that names 5
\* attempts and wraps the last of these answers
C5_AtMostFiveAttempts ==
    \A s \in DbStepIds :
        /\ dbHist[s].calls <= 5
        /\ ( /\ Returned(s)
             /\ dbHist[s].calls > 0
             /\ dbHist[s].existsAnswers = dbHist[s].calls )
           => /\ dbHist[s].calls = 5
              /\ stepErr[s] = [kind |-> "exhausted", attempts |-> 5,
                               wraps |-> DatabaseExistsError(5)]

C5_Witness ==
    \E s \in DbStepIds : Returned(s) /\ stepErr[s].kind = "exhausted"

\* C6, the final state: a Run that succeeds after k answers "already exists"
\* (k <= 4) has made k + 1 CreateDatabase calls and leaves exactly one database
C6_CallsAndDatabases ==
    \A s \in DbStepIds :
        Created(s) =>
            /\ dbHist[s].existsAnswers <= 4
            /\ dbHist[s].calls = dbHist[s].existsAnswers + 1
            /\ Cardinality(databases) = 1

\* C6, the retries: every attempt after the first generates its suffix
C6_RetryGenerates ==
    \A s \in DbStepIds :
        ( /\ stepPc[s] = "loop"
          /\ dbLocal[s].attempt > 0
          /\ stepPc'[s] # "loop" )
        => /\ stepPc'[s] = "set"
           /\ dbLocal'[s].suffix \in Suffixes

\* C6: k answers "already exists" and then an accepted name: k + 1 calls, a
\* freshly generated suffix at every retry, one database afterwards
C6_RetryThenSuccess == []C6_CallsAndDatabases /\ [][C6_RetryGenerates]_vars

C6_Witness ==
    \E s \in DbStepIds : Created(s) /\ dbHist[s].existsAnswers = 4

\* C7: when a Run returns after the client accepted its name, the context's
\* DbSuffix, the db_suffix record and the suffix of that name are one value
C7_Consistent ==
    [][\A s \in DbStepIds :
          (stepPc[s] \in {"persist", "write"} /\ stepPc'[s] = "done")
          => /\ ctxDbSuffix' = dbLocal[s].suffix
             /\ persisted' = dbLocal[s].suffix]_vars

\* C8: a Run that finds the suffix S in its context passes only the name
\* sanitize(prefix or site name) + "_" + S to CreateDatabase, and when it has
\* returned the context still holds S, and so does the record after a success
C8_ReusesSuffix ==
    initial.dbSuffix # Empty =>
        \A s \in DbStepIds :
            /\ stepPc[s] = "create" =>
                  dbLocal[s].dbName =
                      SanitizeSiteName(dbLocal[s].site) \o <<"_">> \o initial.dbSuffix
            /\ Returned(s) => ctxDbSuffix = initial.dbSuffix
            /\ Created(s) => persisted = initial.dbSuffix

\* C9: a scaffold run on a worktree whose record holds the suffix S creates
\* its databases under S, and the record still holds S after the run
C9_KeepsPersistedSuffix ==
    initial.record # Empty =>
        /\ \A n \in databases : ExtractSuffix(n) = initial.record
        /\ Finished => persisted = initial.record

\* C10: a step whose condition is false is never run, causes no error, and
\* is in the results as skipped once Execute has returned
C10_FalseConditionSkips ==
    \A s \in StepIds :
        condEval[s] = "false" =>
            /\ ~runCalled[s]
            /\ stepErr[s] = NoErr
            /\ execErr # NoErr => execErr.step # s
            /\ Finished =>
                  /\ \E i \in DOMAIN results :
                        results[i].step = s /\ results[i].skipped
                  /\ \A i \in DOMAIN results :
                        results[i].step = s => results[i].skipped /\ results[i].err = NoErr

C10_Witness ==
    /\ execPc = "done"
    /\ ~dryRun
    /\ \E s, t \in StepIds :
          /\ condEval[s] = "false"
          /\ runCalled[t] /\ Returned(t)

\* the steps that have an outcome in Results()
ResultSteps == {results[i].step : i \in DOMAIN results}

\* C11: in a dry run no step is run and Execute reports no error; every
\* condition is still evaluated, and when Execute has returned every step has
\* its one result, recorded as skipped
C11_DryRunRunsNothing ==
    dryRun =>
        /\ \A s \in StepIds : ~runCalled[s] /\ stepErr[s] = NoErr
        /\ execErr = NoErr
        /\ execPc # "failed"
        /\ execPc = "done" =>
              /\ \A s \in StepIds : condEval[s] # "none"
              /\ Len(results) = NumSteps
              /\ \A s \in StepIds :
                    \E i \in DOMAIN results :
                        results[i].step = s /\ results[i].skipped

C11_Witness ==
    /\ dryRun
    /\ execPc = "done"
    /\ \E s, t \in StepIds : condEval[s] = "true" /\ condEval[t] = "false"

\* C12: Results() holds one outcome per processed step, in ascending priority
\* and in configuration order inside a priority, each outcome the one of its
\* step; when Execute has returned, with an error or without, the results are
\* those of all the steps whose group was processed
C12_ResultsInStepOrder ==
    /\ \A i, j \in DOMAIN results :
          i < j =>
              \/ steps[results[i].step].priority < steps[results[j].step].priority
              \/ /\ steps[results[i].step].priority = steps[results[j].step].priority
                 /\ results[i].step < results[j].step
    /\ \A i \in DOMAIN results :
          /\ results[i].err = stepErr[results[i].step]
          /\ results[i].skipped = (stepPc[results[i].step] = "skipped")
          /\ condEval[results[i].step] # "none"
    /\ Finished => ResultSteps = {s \in StepIds : condEval[s] # "none"}

C12_Witness ==
    /\ execPc = "failed"
    /\ \E i, j \in DOMAIN results :
          /\ i < j
          /\ steps[results[i].step].priority = steps[results[j].step].priority
          /\ results[i].err # NoErr
          /\ results[j].err = NoErr /\ ~results[j].skipped
    /\ \E s \in StepIds : condEval[s] = "none"

\* C13: every name handed to CreateDatabase is at most 63 characters long and
\* is a leading part of the sanitised prefix or site name, "_", and the whole
\* suffix of the attempt
C13_NameWithinMaximum ==
    \A s \in DbStepIds :
        stepPc[s] = "create" =>
            LET dbName == dbLocal[s].dbName
                suffix == dbLocal[s].suffix
                kept   == Len(dbName) - Len(suffix) - 1
            IN  /\ Len(dbName) <= 63
                /\ kept >= 0
                /\ dbName = SubSeq(SanitizeSiteName(dbLocal[s].site), 1, kept)
                                \o <<"_">> \o suffix

\* C17: a Run whose Ping failed has returned nil without a CreateDatabase
\* call, and the context's DbSuffix and the db_suffix record are as before
C17_PingFailureSkips ==
    \A s \in DbStepIds :
        dbHist[s].path = "pingFailed" =>
            /\ Returned(s)
            /\ stepErr[s] = NoErr
            /\ dbHist[s].calls = 0
            /\ databases = {}
            /\ ctxDbSuffix = initial.dbSuffix
            /\ persisted = initial.record

C17_Witness ==
    \E s \in DbStepIds :
        /\ dbHist[s].path = "pingFailed"
        /\ Returned(s)
        /\ initial.dbSuffix # Empty
        /\ initial.record # Empty

\* C18: a Run of a step configured with an unsupported engine type returns an
\* error
C18_UnsupportedEngineFails ==
    \A s \in DbStepIds :
        (Returned(s) /\ dbHist[s].path = "unsupported") => stepErr[s] # NoErr

\* C19: for sqlite, a file that exists keeps its content, a Run that succeeds
\* outside a dry run leaves an empty file where there was none, and the
\* context's DbSuffix stays unset
C19_SqliteKeepsExistingFile ==
    \A s \in DbStepIds :
        (Returned(s) /\ dbHist[s].path = "sqlite") =>
            /\ initial.file = "data" => sqliteFile = "data"
            /\ (initial.file = "absent" /\ stepErr[s] = NoErr /\ ~dryRun)
                  => sqliteFile = "empty"
            /\ initial.dbSuffix = Empty => ctxDbSuffix = Empty

DestroyStepIds == {s \in StepIds : IsDestroy(s)}

\* the suffix a cleanup has to use: the context's, else the record's
SuffixToClean == IF initial.dbSuffix # Empty THEN initial.dbSuffix ELSE initial.record

\* C14: db.destroy works with the context's suffix, or the record's when the
\* context has none; its one ListDatabases call carries "%_" and that suffix;
\* with no suffix in either place it makes no client, no list and no drop
C14_ResolvesSuffix ==
    \A s \in DestroyStepIds :
        /\ Len(dbHist[s].listCalls) <= 1
        /\ \A i \in DOMAIN dbHist[s].listCalls :
              dbHist[s].listCalls[i] = <<"%", "_">> \o SuffixToClean
        /\ stepPc[s] \in {"connect", "drop"} => dbLocal[s].suffix = SuffixToClean
        /\ SuffixToClean = Empty =>
              /\ stepPc[s] \in {"dispatched", "done"}
              /\ dbHist[s].client = "none"
              /\ dbHist[s].listCalls = Empty
              /\ dbHist[s].dropCalls = 0

C14_Witness ==
    \E s \in DestroyStepIds :
        /\ dbHist[s].listCalls # Empty
        /\ initial.dbSuffix # Empty
        /\ initial.record # Empty
        /\ initial.dbSuffix # initial.record

\* C15: the Run of db.destroy never returns an error, and outside a dry run
\* it calls DropDatabase for every listed database, failed drops or not
C15_DestroyNeverFails ==
    \A s \in DestroyStepIds :
        /\ stepErr[s] = NoErr
        /\ (Returned(s) /\ dbHist[s].path = "dropped" /\ ~dryRun)
              => dbHist[s].dropCalls = dbHist[s].listed

C15_Witness ==
    \E s \in DestroyStepIds :
        /\ Returned(s)
        /\ ~dryRun
        /\ dbHist[s].dropCalls >= 2
        /\ databases = initial.databases

\* C16: in a dry run db.destroy calls DropDatabase not once and the server
\* holds the databases it held before
C16_DryRunDropsNothing ==
    \A s \in DestroyStepIds :
        dryRun =>
            /\ dbHist[s].dropCalls = 0
            /\ databases = initial.databases

C16_Witness ==
    \E s \in DestroyStepIds :
        /\ dryRun
        /\ Returned(s)
        /\ dbHist[s].path = "dropped"
        /\ dbHist[s].listed >= 2

\* C20, the states: a Run that has returned holds no open client, a closed
\* client belongs to a Run that has returned, and the Run works on an open one
C20_ClosedAtReturn ==
    \A s \in DbStepIds \cup DestroyStepIds :
        /\ Returned(s) => dbHist[s].client \in {"none", "closed"}
        /\ dbHist[s].client = "closed" => Returned(s)
        /\ stepPc[s] \in {"loop", "set", "create", "clear", "persist", "write", "drop"}
              => dbHist[s].client = "open"
        /\ dbHist[s].path \in {"pingFailed", "createFailed", "exhausted", "created",
                                "listFailed", "nothingListed", "dropped"}
              => dbHist[s].client = "closed"

\* C20, the calls: no CreateDatabase, ListDatabases or DropDatabase call goes
\* to a client that is closed
C20_NoUseAfterClose ==
    \A s \in DbStepIds \cup DestroyStepIds :
        ( \/ dbHist'[s].calls # dbHist[s].calls
          \/ dbHist'[s].listCalls # dbHist[s].listCalls
          \/ dbHist'[s].dropCalls # dbHist[s].dropCalls )
        => dbHist[s].client # "closed"

\* C20: every client obtained by db.create or db.destroy is closed when Run
\* returns, on every path, and is not used afterwards
C20_ClientsClosed == []C20_ClosedAtReturn /\ [][C20_NoUseAfterClose]_vars

C20_Witness ==
    \E s \in DestroyStepIds :
        /\ Returned(s)
        /\ dbHist[s].path = "dropped"
        /\ dbHist[s].client = "closed"
        /\ dbHist[s].dropCalls >= 1
        /\ databases = initial.databases

(***************************************************************************)
(* The condition evaluators.                                               *)
(***************************************************************************)
Asked(ev) == verdicts[ev] # Unasked

\* every entry of the condition map, taken by itself, is true
EveryKeyHolds(ev, c) ==
    \A i \in DOMAIN c.kids : evaluateSingle(ev, c.kids[i].key, c.kids[i].node) = {"true"}

\* C21: each evaluator returns true for a condition map exactly when every key
\* of the map holds, the key "not" holding when its nested condition is false,
\* whatever keys stand together at the top level of the map.
C21_TrueIffEveryKeyHolds ==
    \A ev \in Evaluators :
        Asked(ev) => (verdicts[ev].plain = "true" <=> EveryKeyHolds(ev, condition))

\* C22: for every condition map c, each evaluator returns for {not: c} the
\* negation of what it returns for c, and for {not: {not: c}} what it returns
\* for c.
C22_NotNegates ==
    \A ev \in Evaluators :
        Asked(ev) => /\ {verdicts[ev].negated} = Negated({verdicts[ev].plain})
                     /\ verdicts[ev].twice = verdicts[ev].plain

\* what evaluator ev returned for the one-predicate condition {key: arg} is the
\* negation of what it returns for {other: arg}
Complements(ev, key, other) ==
    Asked(ev) /\ condition \in Leaves /\ condition.kids[1].key = key
        => {verdicts[ev].plain} =
               Negated(Evaluate(ev, Leaf(other, condition.kids[1].node)))

\* C23: in each evaluator, for every content of the env file and every shape
\* of argument, env_file_missing returns the negation of env_file_contains for
\* the same argument (a key present with an empty value: contains false,
\* missing true), and env_not_exists returns the negation of env_exists.
C23_ComplementaryPredicates ==
    \A ev \in Evaluators :
        /\ Complements(ev, "env_file_missing", "env_file_contains")
        /\ Complements(ev, "env_not_exists", "env_exists")

\* the condition is {not: <list>}
NotOfList == condition \in NotMaps /\ condition.kids[1].node.tag = "list"

\* every element of the list under "not", evaluated by itself, is true
EveryItemHolds(ev) ==
    LET items == condition.kids[1].node.kids
    IN  \A i \in DOMAIN items : evaluateCondition(ev, items[i].node) = {"true"}

\* C30: for every condition tree of maps, lists and scalars, a list whose
\* element is itself a list or a scalar included, each evaluator ends with a
\* boolean and does not crash, and a list counts as the conjunction of its
\* elements.
C30_TotalOnTrees ==
    \A ev \in Evaluators :
        Asked(ev) =>
            /\ verdicts[ev].plain \in {"true", "false"}
            /\ NotOfList => (verdicts[ev].plain = "false" <=> EveryItemHolds(ev))

(***************************************************************************)
(* BinaryStep.                                                             *)
(***************************************************************************)
HasUnknownPlaceholder == \E i \in DOMAIN stepArgs : stepArgs[i] \in UnknownArgs

\* C24: when an argument of the step holds a placeholder whose identifier is
\* unknown, Run returns the substitution error and does not execute the
\* command, neither with the placeholder left in place nor with it replaced by
\* the empty string.
C24_UnknownPlaceholderFails ==
    binRun.pc = "done" /\ HasUnknownPlaceholder
        => binRun.err.kind = "templateFailed" /\ ~binRun.executed

(***************************************************************************)
(* The enabled option.                                                     *)
(***************************************************************************)
\* C25: a step configured with enabled: false is not in the step list that
\* RunScaffold hands to the executor, and its Run is never invoked.
C25_DisabledStepsLeftOut ==
    \A s \in StepIds :
        ~enabled[s] => s \notin SeqToSet(handed) /\ ~runCalled[s]

(***************************************************************************)
(* The MySQL and PostgreSQL clients.                                       *)
(***************************************************************************)
\* the Run of s returned nil after its client accepted the name
CreatedAs(s, name) == Created(s) /\ dbHist[s].accepted = name

\* C28: with the MySQL and the PostgreSQL client, CreateDatabase of a name the
\* server holds is answered with an "already exists" error that
\* IsDatabaseExistsError recognises, so that no db.create Run returns success
\* for a name that existed before the Run.
C28_NoSuccessOnExistingName ==
    \A s \in DbStepIds : \A name \in initial.databases : ~CreatedAs(s, name)

(***************************************************************************)
(* db.create: the context after a failed Run.                              *)
(***************************************************************************)
\* the Run of s returned an error
Failed(s) == Returned(s) /\ stepErr[s] # NoErr

\* C29: when the Run of a db.create step returns an error, for a failure that
\* is no collision or after the last retry, the context's DbSuffix is what it
\* was before the Run: a generated suffix is not left behind and a suffix that
\* was set before is not lost.
C29_FailedRunRestoresSuffix ==
    \A s \in DbStepIds : Failed(s) => ctxDbSuffix = initial.dbSuffix

(***************************************************************************)
(* A scaffold run and its cleanup.                                         *)
(***************************************************************************)
\* the databases the scaffold run of this environment left on the server
CreatedByRun == initial.databases \ OtherNames

\* the db.destroy step s of the cleanup returned; it found the server, its
\* listing was answered, and every DropDatabase call it made succeeded
CleanedUp(s) ==
    /\ execPc = "cleanup"
    /\ Returned(s)
    /\ dbHist[s].path \in {"noSuffix", "nothingListed", "dropped"}
    /\ dbHist[s].dropCalls = Cardinality(initial.databases \ databases)

\* C26: after a scaffold run whose db.create steps succeeded, a db.destroy on a
\* fresh context that reaches the server, gets its listing and has every drop
\* succeed leaves none of the databases of that run on the server, also when a
\* later db.create of the run met a collision and retried.
C26_CleanupLeavesNothing ==
    \A s \in DestroyStepIds : CleanedUp(s) => CreatedByRun \cap databases = {}

\* the databases of the other environment when the cleanup began
OthersAtCleanup == initial.databases \cap OtherNames

\* C27: of two environments that use one server, each with its own prefix, the
\* db.destroy of one never drops a database that the scaffold run of the other
\* created.
C27_CleanupSparesOtherEnvironment ==
    execPc = "cleanup" => OthersAtCleanup \subseteq databases


====
